---- MODULE Spec2Model ----
(***************************************************************************)
(* Model of @aptoma/hapi-json-api 4.1.0 (the plugin source with the        *)
(* `exports.plugin` registration): the JSON:API document builder (toAPI,   *)
(* formatObject, formatCollection) and the onPreResponse error formatter   *)
(* (formatError).                                                          *)
(*                                                                         *)
(* JavaScript values are encoded as pairs <<typeof, n>>; objects live in   *)
(* a heap indexed by reference, because toAPI deletes properties of the    *)
(* objects it is given and the `attributes` of a resource object may BE    *)
(* the caller's object.                                                    *)
(***************************************************************************)
EXTENDS Integers, Sequences, FiniteSets, TLC

VARIABLES
    heap,     \* the caller's objects, as they are now
    pre,      \* the caller's objects as they were when the last call began
    op,       \* the last operation invoked
    args,     \* its arguments
    result,   \* what it returned (or that it threw)
    log       \* what req.log has been handed

vars == <<heap, pre, op, args, result, log>>

----------------------------------------------------------------------------
(* JavaScript values *)

Undefined == <<"undefined", 0>>
Num(n) == <<"number", n>>
Str(n) == <<"string", n>>
Buf(n) == <<"buffer", n>>

\* ToBoolean, as used by `||`, `if (x)` and `!x`
Truthy(v) == ~(v = Undefined \/ v = Num(0))

----------------------------------------------------------------------------
(* Bounds of the model *)

\* longest `items` list of a relationship descriptor
MaxItems == 2
\* longest collection handed to formatCollection
MaxColl == 2
\* most issues of a validation failure
MaxIssues == 2
\* longest path of an issue
MaxPath == 2

----------------------------------------------------------------------------
(* The objects of the caller: resources and related items *)

Refs == {"r1", "r2", "r3"}

NoAttrs == [k \in {} |-> "none"]

\* r1: a plain JSON object that also carries its raw relationship fields;
\* r2: a plain JSON object identified by `_id` only;
\* r3: a model instance with toJSON() (a fresh copy) and getRelationships().
InitHeap ==
    [r \in Refs |->
        CASE r = "r1" -> [id |-> Num(1), alt |-> Undefined, toJSON |-> FALSE,
                          provider |-> FALSE,
                          attrs |-> [k \in {"name", "foos", "myFoos"} |->
                                        IF k = "name" THEN "a" ELSE "raw"]]
          [] r = "r2" -> [id |-> Undefined, alt |-> Num(1), toJSON |-> FALSE,
                          provider |-> FALSE,
                          attrs |-> [k \in {"name"} |-> "b"]]
          [] OTHER    -> [id |-> Num(2), alt |-> Undefined, toJSON |-> TRUE,
                          provider |-> TRUE,
                          attrs |-> [k \in {"name", "bars"} |->
                                        IF k = "name" THEN "c" ELSE "raw"]]]

\* A value met as `data` or as a related item: a reference to an object, a
\* primitive string, a bson ObjectId wrapper, or null.
ObjItem(r) == [kind |-> "obj", ref |-> r, val |-> 0]
StrItem(n) == [kind |-> "str", ref |-> "none", val |-> n]
BsonItem(n) == [kind |-> "bson", ref |-> "none", val |-> n]
NullItem == [kind |-> "null", ref |-> "none", val |-> 0]

ObjItems == {ObjItem(r) : r \in Refs}
ItemVals == ObjItems \cup {StrItem(7), BsonItem(9), NullItem}

\* `relationship.item` / `relationship.items` in a condition: null is falsy
ItemTruthy(item) == item.kind # "null"

----------------------------------------------------------------------------
(* Relationship descriptors: {type, name?, keep?, item | items} *)

Desc(t, n, k, a, s) == [type |-> t, name |-> n, keep |-> k, arity |-> a, items |-> s]

\* what the own getRelationships() of a model instance returns
OwnRels(r) ==
    IF r = "r3" THEN << Desc("models", "", FALSE, "one", <<ObjItem("r1")>>) >>
    ELSE << >>

----------------------------------------------------------------------------
(* getId: src/unnamed/part_000 283-297 *)

getId(item, h) ==
    CASE item.kind = "bson" -> Str(item.val)
      [] item.kind = "obj"  -> IF Truthy(h[item.ref].id) THEN h[item.ref].id ELSE Undefined
      [] item.kind = "str"  -> Str(item.val)
      [] OTHER -> Undefined

\* property reads of toAPI on `data`
DataId(data, h) ==
    CASE data.kind = "obj"  -> h[data.ref].id
      [] data.kind = "bson" -> Buf(data.val)
      [] OTHER -> Undefined

DataAltId(data, h) ==
    IF data.kind = "obj" THEN h[data.ref].alt ELSE Undefined

HasOwnProvider(data, h) ==
    data.kind = "obj" /\ h[data.ref].provider

\* F applied to the value of v, v being evaluated once: a step of the code
\* whose result the following steps read several times
Once(v, F(_)) == CHOOSE y \in { F(x) : x \in {v} } : TRUE

\* `a || b`
OrElse(a, b) == IF Truthy(a) THEN a ELSE b

Without(f, k) == [x \in (DOMAIN f) \ {k} |-> f[x]]

----------------------------------------------------------------------------
(* Options: {meta?, includedRelationships?, getRelationships?} *)

Opts(hasInc, inc, meta, hasGR) ==
    [hasInc |-> hasInc, inc |-> inc, meta |-> meta, hasGR |-> hasGR]

\* `options = options || {}`
NoOptions == Opts(FALSE, << >>, Undefined, FALSE)

\* R.contains(x, list)
Contains(x, list) == \E i \in 1..Len(list) : list[i] = x

----------------------------------------------------------------------------
(* toAPI: src/unnamed/part_000 213-275 *)

\* `attributes: data.toJSON ? data.toJSON() : data`.  alias names the caller's
\* object when the attributes ARE that object; prim is the value when the
\* attributes are a primitive string (a string item, or ObjectId.toJSON()).
AttributesOf(data, h) ==
    IF data.kind = "obj"
    THEN IF h[data.ref].toJSON
         THEN [alias |-> "none", prim |-> Undefined, map |-> h[data.ref].attrs]
         ELSE [alias |-> data.ref, prim |-> Undefined, map |-> NoAttrs]
    ELSE [alias |-> "none", prim |-> Str(data.val), map |-> NoAttrs]

\* `delete ret.attributes[key]` on the state st = [ret, h, threw]
DeleteAttr(st, key) ==
    LET a == st.ret.attributes
    IN  IF a.alias # "none"
        THEN [st EXCEPT !.h[a.alias].attrs = Without(@, key)]
        ELSE [st EXCEPT !.ret.attributes.map = Without(@, key)]

\* a variant that strips the key `type` only
StripRelationshipTypeOnly(st, rel) ==
    IF rel.keep THEN st ELSE DeleteAttr(st, rel.type)

\* lines 238-243
StripRelationship(st, rel) ==
    IF rel.keep THEN st
    ELSE LET s1 == DeleteAttr(st, rel.type)
         IN  IF rel.name # "" THEN DeleteAttr(s1, rel.name) ELSE s1

RECURSIVE toAPI(_, _, _, _, _)

\* a variant that hands the caller's options on to the toAPI of a related item
LinkItemSameOptions(acc, rel, item, options) ==
    IF acc.threw THEN acc
    ELSE IF item.kind = "null" THEN [acc EXCEPT !.threw = TRUE]
    ELSE LET link == [type |-> rel.type, id |-> getId(item, acc.h)]
         IN  IF acc.hasIncluded /\ Contains(rel.type, options.inc)
             THEN Once(toAPI(rel.type, item, options, << >>, acc.h),
                       LAMBDA sub : [acc EXCEPT !.links = Append(@, link),
                                                !.included = Append(@, sub.ret),
                                                !.h = sub.h,
                                                !.threw = sub.threw])
             ELSE [acc EXCEPT !.links = Append(@, link)]

\* lines 248-255 and 258-266: the linkage of one related item, and the
\* resource object pushed onto ret.included.  getId(null) raises a TypeError.
LinkItem(acc, rel, item, options) ==
    IF acc.threw THEN acc
    ELSE IF item.kind = "null" THEN [acc EXCEPT !.threw = TRUE]
    ELSE LET link == [type |-> rel.type, id |-> getId(item, acc.h)]
         IN  IF acc.hasIncluded /\ Contains(rel.type, options.inc)
             THEN Once(toAPI(rel.type, item, NoOptions, << >>, acc.h),
                       LAMBDA sub : [acc EXCEPT !.links = Append(@, link),
                                                !.included = Append(@, sub.ret),
                                                !.h = sub.h,
                                                !.threw = sub.threw])
             ELSE [acc EXCEPT !.links = Append(@, link)]

RECURSIVE LinkItems(_, _, _, _)
LinkItems(acc, rel, items, options) ==
    IF items = << >> THEN acc
    ELSE Once(LinkItem(acc, rel, Head(items), options),
              LAMBDA next : LinkItems(next, rel, Tail(items), options))

\* a variant that takes an empty `items` for a missing one
RelationshipKindNonEmpty(rel) ==
    IF rel.arity = "one" /\ ItemTruthy(rel.items[1]) THEN "one"
    ELSE IF rel.arity = "many" /\ rel.items # << >> THEN "many"
    ELSE "undefined"

\* which branch of `if (relationship.item) ... else if (relationship.items)`
RelationshipKind(rel) ==
    IF rel.arity = "one" /\ ItemTruthy(rel.items[1]) THEN "one"
    ELSE IF rel.arity = "many" THEN "many"
    ELSE "undefined"

\* `relationship.name || relationship.type`
RelationshipKey(rel) == IF rel.name # "" THEN rel.name ELSE rel.type

\* the body of the forEach callback, lines 237-271
ApplyRelationship(st, rel, options) ==
    IF st.threw THEN st
    ELSE
    Once(StripRelationship(st, rel), LAMBDA s1 :
        LET hasI == "included" \in DOMAIN s1.ret
            acc0 == [links |-> << >>,
                     included |-> IF hasI THEN s1.ret.included ELSE << >>,
                     hasIncluded |-> hasI, h |-> s1.h, threw |-> FALSE]
            kind == RelationshipKind(rel)
        IN  Once(IF kind = "undefined" THEN acc0
                 ELSE LinkItems(acc0, rel, rel.items, options),
                 LAMBDA acc :
            LET key  == RelationshipKey(rel)
                old  == s1.ret.relationships
                rels == [k \in (DOMAIN old) \cup {key} |->
                            IF k = key THEN [data |-> [kind |-> kind, list |-> acc.links]]
                            ELSE old[k]]
                r1   == [s1.ret EXCEPT !.relationships = rels]
                r2   == IF hasI THEN [r1 EXCEPT !.included = acc.included] ELSE r1
            IN  IF acc.threw THEN [ret |-> s1.ret, h |-> acc.h, threw |-> TRUE]
                ELSE [ret |-> r2, h |-> acc.h, threw |-> FALSE]))

RECURSIVE ApplyRelationships(_, _, _)
ApplyRelationships(st, rels, options) ==
    IF rels = << >> THEN st
    ELSE Once(ApplyRelationship(st, Head(rels), options),
              LAMBDA next : ApplyRelationships(next, Tail(rels), options))

\* a variant that ignores options.getRelationships when looking for a provider
HasProviderOwnOnly(data, options, h) == HasOwnProvider(data, h)

\* lines 228-233: the provider that is used, if any.  `provided` is what
\* options.getRelationships returns on this invocation.
HasProvider(data, options, h) == options.hasGR \/ HasOwnProvider(data, h)

ProviderResult(data, options, provided) ==
    IF options.hasGR THEN provided ELSE OwnRels(data.ref)

toAPI(type, data, options, provided, h) ==
    IF data.kind = "null"
    THEN [ret |-> [type |-> type], h |-> h, threw |-> TRUE]
    ELSE
    LET attributes == AttributesOf(data, h)
        ret0 == [type |-> type,
                 id |-> OrElse(DataId(data, h), DataAltId(data, h)),
                 attributes |-> attributes]
        \* delete ret.attributes.id; delete ret.attributes._id
        h1   == IF attributes.alias # "none"
                THEN [h EXCEPT ![attributes.alias].id = Undefined,
                               ![attributes.alias].alt = Undefined]
                ELSE h
        ret1 == IF options.hasInc /\ Len(options.inc) > 0
                THEN ret0 @@ ("included" :> << >>)
                ELSE ret0
        st1  == [ret |-> ret1, h |-> h1, threw |-> FALSE]
    IN  IF HasProvider(data, options, h)
        THEN ApplyRelationships(
                 [st1 EXCEPT !.ret = @ @@ ("relationships" :> [k \in {} |-> 0])],
                 ProviderResult(data, options, provided), options)
        ELSE st1

\* The resource object as the caller reads it once the call has returned:
\* attributes that alias a caller's object show that object's final state.
DerefAttributes(a, h) ==
    IF a.alias # "none" THEN [prim |-> Undefined, map |-> h[a.alias].attrs]
    ELSE [prim |-> a.prim, map |-> a.map]

DerefItem(ro, h) ==
    IF "attributes" \in DOMAIN ro
    THEN [ro EXCEPT !.attributes = DerefAttributes(@, h)]
    ELSE ro

DerefList(list, h) == [i \in 1..Len(list) |-> DerefItem(list[i], h)]

DerefResource(ro, h) ==
    LET r1 == DerefItem(ro, h)
    IN  IF "included" \in DOMAIN r1
        THEN [r1 EXCEPT !.included = DerefList(@, h)]
        ELSE r1

----------------------------------------------------------------------------
(* appendMeta, formatObject, formatCollection: src/unnamed/part_000 149-203 *)

\* a variant that sets `meta` whatever its value
appendMetaAlways(meta, payload) == payload @@ ("meta" :> meta)

appendMeta(meta, payload) ==
    IF ~Truthy(meta) THEN payload
    ELSE payload @@ ("meta" :> meta)

TypeError == [error |-> "TypeError"]

formatObject(type, data, options, provided, h) ==
    Once(toAPI(type, data, options, provided, h), LAMBDA out :
        IF out.threw THEN [threw |-> TRUE, value |-> TypeError, h |-> out.h]
        ELSE [threw |-> FALSE,
              value |-> appendMeta(options.meta, [data |-> DerefResource(out.ret, out.h)]),
              h |-> out.h])

\* `items.map((i) => toAPI(type, i, options))`
RECURSIVE MapToAPI(_, _, _, _, _)
MapToAPI(acc, type, items, options, provideds) ==
    IF items = << >> \/ acc.threw THEN acc
    ELSE Once(toAPI(type, Head(items), options, Head(provideds), acc.h), LAMBDA out :
             Once([data |-> Append(acc.data, out.ret), h |-> out.h, threw |-> out.threw],
                  LAMBDA next : MapToAPI(next, type, Tail(items), options, Tail(provideds))))

\* an `undefined` element of an array
UndefinedEntry == [undefined |-> TRUE]

\* R.prop('id') of ramda 0.26: undefined for a nil object
PropId(x) == IF "id" \in DOMAIN x THEN x.id ELSE Undefined

\* deleteAndReturnProperty('included', obj), lines 169-173: the value returned
PulledIncluded(obj) ==
    IF "included" \in DOMAIN obj THEN obj.included ELSE << UndefinedEntry >>

\* ... and the object it leaves behind
DeleteIncluded(obj) ==
    [k \in (DOMAIN obj) \ {"included"} |-> obj[k]]

\* R.flatten over the list of pulled values (an undefined value stays an element)
RECURSIVE FlattenPulled(_)
FlattenPulled(data) ==
    IF data = << >> THEN << >>
    ELSE PulledIncluded(Head(data)) \o FlattenPulled(Tail(data))

\* R.uniqBy(R.prop('id')): keep the first element of each id, in order
RECURSIVE UniqById(_, _)
UniqById(list, seen) ==
    IF list = << >> THEN << >>
    ELSE IF PropId(Head(list)) \in seen THEN UniqById(Tail(list), seen)
    ELSE << Head(list) >> \o UniqById(Tail(list), seen \cup {PropId(Head(list))})

\* a variant without the deduplication
pullIncludedNoUniq(data) == FlattenPulled(data)

pullIncluded(data) == UniqById(FlattenPulled(data), {})

\* `encountered` is not part of the document: it records the list that
\* R.flatten hands to R.uniqBy, for the statements about the deduplication.
formatCollection(type, items, options, provideds, h) ==
    Once(MapToAPI([data |-> << >>, h |-> h, threw |-> FALSE],
                  type, items, options, provideds), LAMBDA m :
    LET bare == [i \in 1..Len(m.data) |-> DerefItem(DeleteIncluded(m.data[i]), m.h)]
    IN  IF m.threw
        THEN [threw |-> TRUE, value |-> TypeError, h |-> m.h, encountered |-> << >>]
        ELSE IF ~options.hasInc
        THEN [threw |-> FALSE,
              value |-> appendMeta(options.meta,
                                   [data |-> [i \in 1..Len(m.data) |->
                                                 DerefResource(m.data[i], m.h)]]),
              h |-> m.h, encountered |-> << >>]
        ELSE [threw |-> FALSE,
              value |-> appendMeta(options.meta,
                                   [data |-> bare,
                                    included |-> DerefList(pullIncluded(m.data), m.h)]),
              h |-> m.h,
              encountered |-> DerefList(FlattenPulled(m.data), m.h)])

----------------------------------------------------------------------------
(* The inputs the operations are exercised on *)

Types == {"foos", "bars"}

SeqsUpTo(S, n) == UNION {[1..k -> S] : k \in 0..n}

IncludeOptions ==
    { <<FALSE, << >> >>, <<TRUE, << >> >>, <<TRUE, <<"foos">> >>,
      <<TRUE, <<"foos", "bars">> >> }

MetaOptions == {Undefined, <<"object", 1>>}

\* options.meta is varied with the resource's own provider (or none), a
\* getRelationships override with every returned list
OptionSet ==
    { Opts(i[1], i[2], m, FALSE) : i \in IncludeOptions, m \in MetaOptions }
    \cup { Opts(i[1], i[2], Undefined, TRUE) : i \in IncludeOptions }

\* one descriptor, every shape of item / items
ItemRich ==
    { << Desc("foos", "", FALSE, "many", s) >> :
        s \in SeqsUpTo(ObjItems \cup {StrItem(7)}, MaxItems) }
    \cup { << Desc("foos", "", FALSE, "many", s) >> :
        s \in UNION { { << x >>, << x, ObjItem("r1") >>, << ObjItem("r1"), x >> } :
                        x \in {BsonItem(9), NullItem} } }
    \cup { << Desc("foos", "", FALSE, "one", << x >>) >> : x \in ItemVals }
    \cup { << Desc("foos", "", FALSE, "none", << >>) >> }

\* one descriptor, every type / name / keep
LabelRich ==
    { << Desc(t, n, k, "many", s) >> :
        t \in Types, n \in {"", "myFoos"}, k \in BOOLEAN,
        s \in { << >>, << ObjItem("r2") >> } }

\* two descriptors
Pairs ==
    { << Desc("foos", "", FALSE, "many", << x >>), Desc(t, "", k, "many", << y >>) >> :
        x \in ObjItems, y \in ObjItems, t \in Types, k \in BOOLEAN }

RelLists == { << >> } \cup ItemRich \cup LabelRich \cup Pairs

\* what options.getRelationships returns for the resources of a collection
CollRelLists ==
    { << >>,
      << Desc("foos", "", FALSE, "many", << >>) >>,
      << Desc("foos", "", FALSE, "many", << ObjItem("r1") >>) >>,
      << Desc("foos", "", FALSE, "many", << ObjItem("r2"), ObjItem("r3") >>) >>,
      << Desc("foos", "", FALSE, "one", << ObjItem("r3") >>),
         Desc("bars", "", FALSE, "many", << ObjItem("r1"), StrItem(7) >>) >> }

\* the lists returned for a collection of n resources (longer collections
\* get the same list for every resource)
ProvidedFor(options, n) ==
    IF ~options.hasGR THEN { [i \in 1..n |-> << >>] }
    ELSE IF n <= 1 THEN [1..n -> RelLists]
    ELSE IF n = 2 THEN [1..n -> CollRelLists]
    ELSE { [i \in 1..n |-> l] : l \in CollRelLists }

----------------------------------------------------------------------------
(* The operations *)

NoArgs == [type |-> "none", items |-> << >>, options |-> NoOptions, provided |-> << >>]

NoResult == [threw |-> FALSE, value |-> [none |-> TRUE]]

Init ==
    /\ heap = InitHeap
    /\ pre = InitHeap
    /\ op = "none"
    /\ args = NoArgs
    /\ result = NoResult
    /\ log = << >>

\* The calls are synchronous and the process runs one at a time: a call
\* starts when no other is being served (op = "none").
Idle == op = "none"

\* The handler has sent the document; the objects it was built from stay as
\* the call left them.
Respond ==
    /\ op # "none"
    /\ op' = "none"
    /\ args' = NoArgs
    /\ result' = NoResult
    /\ pre' = heap
    /\ log' = << >>
    /\ UNCHANGED heap

\* exports.toAPI(type, data, options)
ToAPI ==
    /\ Idle
    /\ \E r \in Refs, options \in OptionSet :
      \E provided \in ProvidedFor(options, 1) :
        \E out \in { toAPI("models", ObjItem(r), options, provided[1], heap) } :
            /\ op' = "toAPI"
            /\ args' = [type |-> "models", items |-> << r >>, options |-> options,
                        provided |-> provided]
            /\ pre' = heap
            /\ heap' = out.h
            /\ result' = IF out.threw THEN [threw |-> TRUE, value |-> TypeError]
                         ELSE [threw |-> FALSE, value |-> DerefResource(out.ret, out.h)]
            /\ UNCHANGED log

\* exports.formatObject(type, object, options)
FormatObject ==
    /\ Idle
    /\ \E r \in Refs, options \in OptionSet :
      \E provided \in ProvidedFor(options, 1) :
        \E out \in { formatObject("models", ObjItem(r), options, provided[1], heap) } :
            /\ op' = "formatObject"
            /\ args' = [type |-> "models", items |-> << r >>, options |-> options,
                        provided |-> provided]
            /\ pre' = heap
            /\ heap' = out.h
            /\ result' = [threw |-> out.threw, value |-> out.value]
            /\ UNCHANGED log

\* exports.formatCollection(type, items, options)
FormatCollection ==
    /\ Idle
    /\ \E items \in SeqsUpTo(Refs, MaxColl), options \in OptionSet :
      \E provided \in ProvidedFor(options, Len(items)) :
        \E out \in { formatCollection("models",
                                        [i \in 1..Len(items) |-> ObjItem(items[i])],
                                        options, provided, heap) } :
            /\ op' = "formatCollection"
            /\ args' = [type |-> "models", items |-> items, options |-> options,
                        provided |-> provided]
            /\ pre' = heap
            /\ heap' = out.h
            /\ result' = [threw |-> out.threw, value |-> out.value,
                          encountered |-> out.encountered]
            /\ UNCHANGED log

Next == ToAPI \/ FormatObject \/ FormatCollection \/ Respond

Spec == Init /\ [][Next]_vars

----------------------------------------------------------------------------
(* formatError and getJoiErrorMessage: src/unnamed/part_000 102-139 *)

Digit(d) ==
    CASE d = 0 -> "0" [] d = 1 -> "1" [] d = 2 -> "2" [] d = 3 -> "3" [] d = 4 -> "4"
      [] d = 5 -> "5" [] d = 6 -> "6" [] d = 7 -> "7" [] d = 8 -> "8" [] OTHER -> "9"

\* String(n) for a non-negative integer
RECURSIVE ToDecimalString(_)
ToDecimalString(n) ==
    IF n < 10 THEN Digit(n)
    ELSE ToDecimalString(n \div 10) \o Digit(n % 10)

\* Array.prototype.join on a list of strings
RECURSIVE Join(_, _)
Join(list, sep) ==
    IF list = << >> THEN ""
    ELSE IF Len(list) = 1 THEN list[1]
    ELSE list[1] \o sep \o Join(Tail(list), sep)

getJoiErrorMessage(details) ==
    "Validation error: " \o details.message \o " (" \o Join(details.path, ".") \o ")"

\* a variant that joins the issues with '; '
JoiMessageSemicolon(list) ==
    Join([i \in 1..Len(list) |-> getJoiErrorMessage(list[i])], "; ")

\* `response.details.map(getJoiErrorMessage).join(', ')`
JoiMessage(list) ==
    Join([i \in 1..Len(list) |-> getJoiErrorMessage(list[i])], ", ")

\* `response.isJoi && response.details && typeof response.details.map === 'function'`
IsValidationFailure(response) ==
    response.isJoi /\ response.details.kind = "list"

\* a variant with title and details exchanged
BaseErrorObjectSwapped(response) ==
    [status  |-> ToDecimalString(response.statusCode),
     title   |-> response.message,
     details |-> response.error]

\* lines 109-113
BaseErrorObject(response) ==
    [status  |-> ToDecimalString(response.statusCode),
     title   |-> response.error,
     details |-> response.message]

\* a variant that sets meta whether or not the payload has an _expose
WithExposedAlways(errorObject, response) ==
    errorObject @@ ("meta" :> response.data.expose)

\* lines 115-119: `if (response.data) { if (response.data._expose) ... }`
WithExposed(errorObject, response) ==
    IF response.data.kind # "none" /\ Truthy(response.data.expose)
    THEN errorObject @@ ("meta" :> response.data.expose)
    ELSE errorObject

\* lines 121-124: what is handed to req.log
Logged(response) ==
    IF response.data.kind # "none" /\ response.statusCode = 500
    THEN << [tags |-> "error",
             data |-> IF response.data.kind = "buffer"
                      THEN [response.data EXCEPT !.kind = "string"]
                      ELSE response.data] >>
    ELSE << >>

\* lines 127-130
WithJoiDetails(errorObject, response) ==
    IF IsValidationFailure(response)
    THEN [errorObject EXCEPT !.details = JoiMessage(response.details.list)]
    ELSE errorObject

formatError(response) ==
    IF ~response.isBoom
    THEN [kind |-> "continue", response |-> response]
    ELSE [kind |-> "response",
          payload |-> [errors |->
                         << WithJoiDetails(WithExposed(BaseErrorObject(response), response),
                                           response) >>],
          code |-> response.statusCode]

----------------------------------------------------------------------------
(* The responses formatError is exercised on *)

\* output.payload.error as Boom fills it in: the reason phrase of the status
ReasonPhrase(code) ==
    CASE code = 400 -> "Bad Request"
      [] code = 409 -> "Conflict"
      [] code = 500 -> "Internal Server Error"
      [] code = 503 -> "Service Unavailable"
      [] OTHER -> "Unknown"

StatusCodes == {400, 409, 500, 503}

\* response.data: nothing, an object (with or without _expose), or a Buffer
NoData == [kind |-> "none", expose |-> Undefined, internal |-> "none"]

DataValues ==
    { NoData,
      [kind |-> "object", expose |-> Undefined,       internal |-> "stack"],
      [kind |-> "object", expose |-> <<"object", 2>>, internal |-> "stack"],
      [kind |-> "buffer", expose |-> Undefined,       internal |-> "bytes"] }

Issues ==
    { [message |-> m, path |-> p] :
        m \in {"\"bar\" is required", "too long"},
        p \in SeqsUpTo({"bar", "baz"}, MaxPath) }

NoDetails == [kind |-> "none", list |-> << >>]

\* response.details: absent, something without a map function, or a list
FewDetails ==
    { NoDetails, [kind |-> "string", list |-> << >>], [kind |-> "list", list |-> << >>],
      [kind |-> "list", list |-> << [message |-> "too long", path |-> << "bar" >>] >>] }

AllDetails ==
    { [kind |-> "list", list |-> l] : l \in SeqsUpTo(Issues, MaxIssues) }

Response(b, c, m, d, j, t) ==
    [isBoom |-> b, statusCode |-> c, error |-> ReasonPhrase(c), message |-> m,
     data |-> d, isJoi |-> j, details |-> t]

Responses ==
    { Response(b, c, "testo", d, j, t) :
        b \in BOOLEAN, c \in StatusCodes, d \in DataValues, j \in BOOLEAN, t \in FewDetails }
    \cup
    { Response(TRUE, 400, "invalid", NoData, j, t) :
        j \in BOOLEAN, t \in AllDetails }

\* server.ext('onPreResponse', formatError): one request's response
FormatError ==
    /\ Idle
    /\ \E response \in Responses :
        /\ op' = "formatError"
        /\ args' = [response |-> response]
        /\ result' = [threw |-> FALSE, value |-> formatError(response)]
        /\ log' = IF response.isBoom THEN Logged(response) ELSE << >>
        /\ pre' = heap
        /\ UNCHANGED heap

ErrNext == FormatError \/ Respond

ErrSpec == Init /\ [][ErrNext]_vars

----------------------------------------------------------------------------
(* What the statements below read off a state *)

Returned(o) == op = o /\ ~result.threw

\* the resource objects under `data` (for toAPI: the resource object returned)
Produced ==
    IF op = "toAPI" THEN << result.value >>
    ELSE IF op = "formatObject" THEN << result.value.data >>
    ELSE IF op = "formatCollection" THEN result.value.data
    ELSE << >>

BuilderReturned ==
    op \in {"toAPI", "formatObject", "formatCollection"} /\ ~result.threw

\* the descriptors the provider returned for the p-th resource of the call
ProviderExists(p) == args.options.hasGR \/ pre[args.items[p]].provider

DescriptorsOf(p) ==
    IF args.options.hasGR THEN args.provided[p]
    ELSE IF pre[args.items[p]].provider THEN OwnRels(args.items[p])
    ELSE << >>

EntryId(e) == IF "id" \in DOMAIN e THEN e.id ELSE Undefined

RECURSIVE ConcatAll(_)
ConcatAll(ss) == IF ss = << >> THEN << >> ELSE Head(ss) \o ConcatAll(Tail(ss))

\* the related items of a descriptor that are to be included, in order
IncludedItemsOf(d) ==
    IF Contains(d.type, args.options.inc)
       /\ (d.arity = "many" \/ (d.arity = "one" /\ d.items[1].kind # "null"))
    THEN [k \in 1..Len(d.items) |-> [type |-> d.type, item |-> d.items[k]]]
    ELSE << >>

\* resources in collection order, relationships in provider order, items in order
ExpectedEncounters ==
    ConcatAll([p \in 1..Len(args.items) |->
        ConcatAll([n \in 1..Len(DescriptorsOf(p)) |-> IncludedItemsOf(DescriptorsOf(p)[n])])])

\* the resource object e was built from the related item x.item
BuiltFrom(e, x) ==
    /\ "type" \in DOMAIN e /\ e.type = x.type
    /\ CASE x.item.kind = "obj" ->
              /\ e.attributes.prim = Undefined
              /\ e.attributes.map["name"] = pre[x.item.ref].attrs["name"]
         [] x.item.kind = "str" -> e.attributes.prim = Str(x.item.val)
         [] OTHER -> e.attributes.prim = Str(x.item.val) /\ e.id = Buf(x.item.val)

FirstOccurrences(E) ==
    { i \in 1..Len(E) : \A j \in 1..(i - 1) : EntryId(E[j]) # EntryId(E[i]) }

----------------------------------------------------------------------------
(* C1: formatCollection with includedRelationships set: no two entries of
   `included` have the same id; the entry kept for an id is the first one
   encountered (resources in collection order, then relationships in
   provider order, then items in order); the kept entries stay in that
   order. *)
C1_IncludedFirstOccurrences ==
    (Returned("formatCollection") /\ args.options.hasInc) =>
        LET inc == result.value.included
            E   == result.encountered
            F   == FirstOccurrences(E)
        IN  /\ \A i, j \in 1..Len(inc) : i # j => EntryId(inc[i]) # EntryId(inc[j])
            /\ Len(inc) = Cardinality(F)
            /\ \A i \in F : inc[Cardinality({j \in F : j <= i})] = E[i]
            /\ Len(args.options.inc) > 0 =>
                  /\ Len(E) = Len(ExpectedEncounters)
                  /\ \A k \in 1..Len(E) : BuiltFrom(E[k], ExpectedEncounters[k])

\* two resources, an id met twice with different contents, a later id kept
C1_Witness ==
    /\ Returned("formatCollection") /\ args.options.hasInc
    /\ Len(args.items) = 2
    /\ Len(result.value.included) >= 2
    /\ \E i, j \in 1..Len(result.encountered) :
          /\ i < j
          /\ EntryId(result.encountered[i]) = EntryId(result.encountered[j])
          /\ result.encountered[i] # result.encountered[j]
          /\ \E k \in (j + 1)..Len(result.encountered) :
                result.encountered[k] = result.value.included[Len(result.value.included)]

(* C2: whenever the document of formatCollection has an `included` array,
   every distinct {type, id} of a related item whose relationship type is
   listed in includedRelationships appears in `included` exactly once, also
   when two related items of different types share the id.  Stated for the
   related items whose id is defined. *)
C2_EveryTypeIdPairIncludedOnce ==
    (Returned("formatCollection") /\ args.options.hasInc /\ Len(args.options.inc) > 0) =>
        \A k \in 1..Len(result.encountered) :
            LET e == result.encountered[k]
            IN  Truthy(EntryId(e)) =>
                  Cardinality({ i \in 1..Len(result.value.included) :
                                  /\ result.value.included[i].type = e.type
                                  /\ EntryId(result.value.included[i]) = EntryId(e) }) = 1

(* C3: in the document returned by formatObject or formatCollection, for
   any options, no resource object under `data` carries an `included`
   field. *)
C3_NoIncludedUnderData ==
    (Returned("formatObject") \/ Returned("formatCollection")) =>
        \A p \in 1..Len(Produced) : "included" \notin DOMAIN Produced[p]

(* C4: for every resource object produced by toAPI and every descriptor r
   the provider returned: if r.keep is not set, `attributes` has no key
   equal to r.type and none equal to r.name; a key of that name is retained
   only by a relationship that set keep. *)
C4_StrippedUnlessKept ==
    BuilderReturned =>
        \A p \in 1..Len(Produced) :
            \A n \in 1..Len(DescriptorsOf(p)) :
                LET d    == DescriptorsOf(p)[n]
                    keys == DOMAIN Produced[p].attributes.map
                IN  ~d.keep => (d.type \notin keys /\ (d.name # "" => d.name \notin keys))

\* a descriptor without keep whose type and name were both attributes
C4_Witness ==
    /\ Returned("toAPI")
    /\ \E n \in 1..Len(DescriptorsOf(1)) :
          LET d == DescriptorsOf(1)[n]
          IN  /\ ~d.keep
              /\ d.name # ""
              /\ {d.type, d.name} \subseteq DOMAIN pre[args.items[1]].attrs
              /\ {d.type, d.name} \cap DOMAIN result.value.attributes.map = {}

(* C5 as stated: the resource object returned by toAPI has a
   `relationships` key if and only if a provider was determined
   (options.getRelationships or the resource's own getRelationships); a
   resource with no provider yields exactly {type, id, attributes}; a
   provider that returns no descriptors yields an empty `relationships`. *)
C5_ExactlyThreeKeysWithoutProvider ==
    Returned("toAPI") =>
        LET ro == result.value
        IN  /\ ("relationships" \in DOMAIN ro) <=> ProviderExists(1)
            /\ ~ProviderExists(1) => DOMAIN ro = {"type", "id", "attributes"}
            /\ (ProviderExists(1) /\ DescriptorsOf(1) = << >>) =>
                  DOMAIN ro.relationships = {}

(* C5 as amended: ... a resource with no provider yields exactly
   {type, id, attributes}, and in addition the transient `included: []`
   when options.includedRelationships is a non-empty list. *)
C5_RelationshipsIffProvider ==
    Returned("toAPI") =>
        LET ro == result.value
            transient == IF args.options.hasInc /\ Len(args.options.inc) > 0
                         THEN {"included"} ELSE {}
        IN  /\ ("relationships" \in DOMAIN ro) <=> ProviderExists(1)
            /\ ~ProviderExists(1) =>
                  /\ DOMAIN ro = {"type", "id", "attributes"} \cup transient
                  /\ transient # {} => ro.included = << >>
            /\ (ProviderExists(1) /\ DescriptorsOf(1) = << >>) =>
                  DOMAIN ro.relationships = {}

\* no provider at all, includedRelationships non-empty
C5_Witness ==
    /\ Returned("toAPI")
    /\ ~ProviderExists(1)
    /\ Len(args.options.inc) > 0
    /\ DOMAIN result.value = {"type", "id", "attributes", "included"}

\* the id a linkage may carry for a related item
LinkageIdOf(id, item) ==
    CASE item.kind = "obj" ->
            LET was == IF Truthy(pre[item.ref].id) THEN pre[item.ref].id ELSE Undefined
            IN  /\ id \in {was, Undefined}
                /\ heap[item.ref].id = pre[item.ref].id => id = was
      [] OTHER -> id = Str(item.val)

DescriptorKey(d) == IF d.name # "" THEN d.name ELSE d.type

(* C6: for every to-many descriptor {type, items, name?}, toAPI stores under
   relationships[name || type] an object {data: L}, L a sequence with one
   linkage {type, id} per element of items, in the order of items; for empty
   items L is [] and never undefined.  (Read in the returned object, where a
   later descriptor of the same key has replaced an earlier one.) *)
C6_ToManyLinkage ==
    BuilderReturned =>
        \A p \in 1..Len(Produced) :
            \A n \in 1..Len(DescriptorsOf(p)) :
                LET ds  == DescriptorsOf(p)
                    d   == ds[n]
                    key == DescriptorKey(d)
                    ro  == Produced[p]
                IN  (d.arity = "many"
                     /\ \A m \in (n + 1)..Len(ds) : DescriptorKey(ds[m]) # key) =>
                        /\ "relationships" \in DOMAIN ro
                        /\ key \in DOMAIN ro.relationships
                        /\ DOMAIN ro.relationships[key] = {"data"}
                        /\ ro.relationships[key].data.kind = "many"
                        /\ LET L == ro.relationships[key].data.list
                           IN  /\ Len(L) = Len(d.items)
                               /\ \A k \in 1..Len(L) :
                                     /\ DOMAIN L[k] = {"type", "id"}
                                     /\ L[k].type = d.type
                                     /\ LinkageIdOf(L[k].id, d.items[k])

\* one resource with no related items, another with two of different ids
C6_Witness ==
    /\ Returned("formatCollection")
    /\ Len(Produced) = 2
    /\ \A p \in 1..2 : "relationships" \in DOMAIN Produced[p]
    /\ \E p, q \in 1..2 :
          /\ "foos" \in DOMAIN Produced[p].relationships
          /\ Produced[p].relationships["foos"].data.kind = "many"
          /\ Produced[p].relationships["foos"].data.list = << >>
          /\ "foos" \in DOMAIN Produced[q].relationships
          /\ Len(Produced[q].relationships["foos"].data.list) = 2
          /\ Produced[q].relationships["foos"].data.list[1].id
                # Produced[q].relationships["foos"].data.list[2].id

\* no key `meta` in a resource object, its relationships or its linkages
NoMetaIn(ro) ==
    /\ "meta" \notin DOMAIN ro
    /\ "relationships" \in DOMAIN ro =>
          \A k \in DOMAIN ro.relationships :
              /\ DOMAIN ro.relationships[k] = {"data"}
              /\ \A i \in 1..Len(ro.relationships[k].data.list) :
                    "meta" \notin DOMAIN ro.relationships[k].data.list[i]

(* C7: for formatObject and formatCollection (with or without
   includedRelationships): the document has a top-level `meta` key exactly
   when the caller supplied options.meta, its value is the supplied meta, and
   the formatter puts no `meta` key anywhere else (resource objects,
   relationships, linkages, included entries). *)
C7_MetaOnlyWhenSupplied ==
    (Returned("formatObject") \/ Returned("formatCollection")) =>
        LET doc == result.value
        IN  /\ ("meta" \in DOMAIN doc) <=> (args.options.meta # Undefined)
            /\ "meta" \in DOMAIN doc => doc.meta = args.options.meta
            /\ \A p \in 1..Len(Produced) : NoMetaIn(Produced[p])
            /\ "included" \in DOMAIN doc =>
                  \A i \in 1..Len(doc.included) : NoMetaIn(doc.included[i])

\* a collection document with `included` and the supplied meta
C7_Witness ==
    /\ Returned("formatCollection")
    /\ args.options.meta # Undefined
    /\ Len(Produced) >= 1
    /\ "included" \in DOMAIN result.value
    /\ "meta" \in DOMAIN result.value
    /\ result.value.meta = args.options.meta

\* the decimal strings of the status codes exercised, written out
ExpectedStatus(code) ==
    CASE code = 400 -> "400"
      [] code = 409 -> "409"
      [] code = 500 -> "500"
      [] code = 503 -> "503"
      [] OTHER -> "?"

\* the one error object of the document formatError answered with
ErrorObject == result.value.payload.errors[1]

\* formatError answered with a document {errors: [e]} and the failure's code
AnsweredWithOneError ==
    /\ result.value.kind = "response"
    /\ DOMAIN result.value.payload = {"errors"}
    /\ Len(result.value.payload.errors) = 1
    /\ result.value.code = args.response.statusCode

\* a validation failure carrying a list of issues
CarriesIssues(r) == r.isJoi /\ r.details.kind = "list"

(* C8 as stated: formatError passes a response that is not a Boom error
   through unmodified; otherwise it answers {errors: [e]} with exactly one
   error object e, e.status the decimal string of the status code, e.title
   the reason phrase, e.details the message, and the response's status code
   is the status code of the failure. *)
C8_DetailsIsMessage ==
    Returned("formatError") =>
        LET r == args.response
        IN  IF ~r.isBoom
            THEN result.value = [kind |-> "continue", response |-> r]
            ELSE /\ AnsweredWithOneError
                 /\ ErrorObject.status = ExpectedStatus(r.statusCode)
                 /\ ErrorObject.title = r.error
                 /\ ErrorObject.details = r.message

(* C8 as amended: ... e.details is the message unless the failure is a
   validation failure carrying a list of issues (then details is built from
   the issues); everything else as stated. *)
C8_OneErrorObject ==
    Returned("formatError") =>
        LET r == args.response
        IN  IF ~r.isBoom
            THEN result.value = [kind |-> "continue", response |-> r]
            ELSE /\ AnsweredWithOneError
                 /\ ErrorObject.status = ExpectedStatus(r.statusCode)
                 /\ ErrorObject.title = r.error
                 /\ ~CarriesIssues(r) => ErrorObject.details = r.message

\* Boom.conflict('testo') as in the test of the handler
C8_Witness ==
    /\ Returned("formatError")
    /\ args.response.isBoom
    /\ args.response.statusCode = 409
    /\ ~args.response.isJoi
    /\ result.value.code = 409
    /\ result.value.payload.errors =
          << [status |-> "409", title |-> "Conflict", details |-> "testo"] >>

\* what req.log must have received for the payload `data`
FullPayloadLogged(data) ==
    /\ Len(log) = 1
    /\ log[1].tags = "error"
    /\ log[1].data = IF data.kind = "buffer"
                     THEN [data EXCEPT !.kind = "string"] ELSE data

\* only the exposable subset of the payload reaches the client
OnlyExposed(e, data) ==
    /\ DOMAIN e \subseteq {"status", "title", "details", "meta"}
    /\ ("meta" \in DOMAIN e) <=> Truthy(data.expose)
    /\ "meta" \in DOMAIN e => e.meta = data.expose
    /\ data.internal \notin {e.status, e.title, e.details}

(* C9 as stated: for every Boom failure carrying data, the error object's
   meta is the payload's _expose and is absent when there is none, no other
   field of the payload reaches the client; and for every failure whose
   status is 5xx the full payload is emitted to the log. *)
C9_LoggedOnServerFault ==
    (Returned("formatError") /\ args.response.isBoom
        /\ args.response.data.kind # "none") =>
        /\ OnlyExposed(ErrorObject, args.response.data)
        /\ args.response.statusCode >= 500 => FullPayloadLogged(args.response.data)

(* C9 as amended: ... and for every failure whose status is exactly 500 the
   full payload is emitted to the log; for any other status, 5xx included,
   nothing is logged. *)
C9_LoggedOnStatus500 ==
    (Returned("formatError") /\ args.response.isBoom
        /\ args.response.data.kind # "none") =>
        /\ OnlyExposed(ErrorObject, args.response.data)
        /\ args.response.statusCode = 500 => FullPayloadLogged(args.response.data)
        /\ args.response.statusCode # 500 => log = << >>

\* a 500 whose payload has an _expose: meta is the _expose, the log has it all
C9_Witness ==
    /\ Returned("formatError")
    /\ args.response.isBoom
    /\ args.response.statusCode = 500
    /\ args.response.data.kind = "object"
    /\ Truthy(args.response.data.expose)
    /\ ErrorObject.meta = args.response.data.expose
    /\ Len(log) = 1
    /\ log[1].data.internal = "stack"

\* the dotted path of an issue, built segment by segment from the left
ExpectedPath(path) ==
    LET f[i \in 0..Len(path)] ==
            IF i = 0 THEN ""
            ELSE IF i = 1 THEN path[1]
            ELSE f[i - 1] \o "." \o path[i]
    IN  f[Len(path)]

ExpectedIssue(issue) ==
    "Validation error: " \o issue.message \o " (" \o ExpectedPath(issue.path) \o ")"

\* the per-issue strings in issue order, joined with ', '
ExpectedDetails(issues) ==
    LET f[i \in 0..Len(issues)] ==
            IF i = 0 THEN ""
            ELSE IF i = 1 THEN ExpectedIssue(issues[1])
            ELSE f[i - 1] \o ", " \o ExpectedIssue(issues[i])
    IN  f[Len(issues)]

(* C10: for a validation failure carrying a list of issues formatError
   replaces details by the strings `Validation error: <message>
   (<dotted.path>)`, one per issue in issue order, the path segments joined
   by '.', the strings joined with ', '; for a Boom failure that is not a
   validation failure details stays the message. *)
C10_ValidationDetails ==
    (Returned("formatError") /\ args.response.isBoom) =>
        LET r == args.response
        IN  /\ CarriesIssues(r) => ErrorObject.details = ExpectedDetails(r.details.list)
            /\ ~CarriesIssues(r) => ErrorObject.details = r.message
            /\ (CarriesIssues(r)
                /\ r.details.list = << [message |-> "\"bar\" is required",
                                        path |-> << "bar" >>] >>) =>
                  ErrorObject.details = "Validation error: \"bar\" is required (bar)"

\* two issues, the first with a path of two segments
C10_Witness ==
    /\ Returned("formatError")
    /\ args.response.isBoom
    /\ args.response.isJoi
    /\ args.response.details.kind = "list"
    /\ Len(args.response.details.list) = 2
    /\ Len(args.response.details.list[1].path) = 2
    /\ ErrorObject.details =
          "Validation error: too long (bar.baz), Validation error: \"bar\" is required (bar)"

(* C11: formatting never raises: for every resource, one without an
   identifier field or one whose relationship descriptors carry absent or
   malformed related items included, toAPI, formatObject and
   formatCollection return a result instead of throwing. *)
C11_NeverRaises ==
    op \in {"toAPI", "formatObject", "formatCollection"} => ~result.threw

\* what identifies a resource object: its type, its id and its linkages
Identity(ro) ==
    [type |-> ro.type,
     id |-> ro.id,
     hasRelationships |-> "relationships" \in DOMAIN ro,
     relationships |-> IF "relationships" \in DOMAIN ro THEN ro.relationships
                       ELSE [k \in {} |-> 0]]

\* the same call made once more, now: the resource objects it would produce
Repeated ==
    IF op = "toAPI"
    THEN Once(toAPI(args.type, ObjItem(args.items[1]), args.options, args.provided[1], heap),
              LAMBDA out : [threw |-> out.threw,
                            data |-> IF out.threw THEN << >>
                                     ELSE << DerefResource(out.ret, out.h) >>])
    ELSE IF op = "formatObject"
    THEN Once(formatObject(args.type, ObjItem(args.items[1]), args.options,
                           args.provided[1], heap),
              LAMBDA out : [threw |-> out.threw,
                            data |-> IF out.threw THEN << >> ELSE << out.value.data >>])
    ELSE Once(formatCollection(args.type,
                               [i \in 1..Len(args.items) |-> ObjItem(args.items[i])],
                               args.options, args.provided, heap),
              LAMBDA out : [threw |-> out.threw,
                            data |-> IF out.threw THEN << >> ELSE out.value.data])

(* C12: no state is shared across invocations: formatting the same resource
   (or a related item shared by several resources) a second time with the
   same type and options yields a result equal to the first, in particular
   the same id and the same linkage ids. *)
C12_SecondCallSameIds ==
    BuilderReturned =>
        /\ ~Repeated.threw
        /\ Len(Repeated.data) = Len(Produced)
        /\ \A p \in 1..Len(Produced) :
              Identity(Repeated.data[p]) = Identity(Produced[p])

\* the resource objects the call built for related items, before any
\* deduplication
IncludedBuilt ==
    IF op \in {"toAPI", "formatObject"}
    THEN IF "included" \in DOMAIN Produced[1] THEN Produced[1].included ELSE << >>
    ELSE IF op = "formatCollection" /\ args.options.hasInc /\ Len(args.options.inc) > 0
    THEN result.encountered
    ELSE << >>

\* the objects the call was handed: its resources and the related items its
\* descriptors list
HandedOver ==
    { args.items[p] : p \in 1..Len(args.items) }
    \cup UNION { UNION { { DescriptorsOf(p)[n].items[k].ref :
                            k \in 1..Len(DescriptorsOf(p)[n].items) } :
                          n \in 1..Len(DescriptorsOf(p)) } :
                  p \in 1..Len(args.items) }

\* a relationships mapping that holds linkages {type, id} only
OnlyLinkages(rels) ==
    \A key \in DOMAIN rels :
        /\ DOMAIN rels[key] = {"data"}
        /\ \A i \in 1..Len(rels[key].data.list) :
              DOMAIN rels[key].data.list[i] = {"type", "id"}

(* C13: only one level of include is materialized: a resource object built
   for an included related item never carries its own `included` list, its
   relationships hold linkages only, it causes no further resource to be
   built (one resource object per listed related item, and no object other
   than the resources and their listed related items is touched), so the
   recursion of toAPI has depth at most two and the output is bounded, also
   when related resources reference each other cyclically. *)
C13_OneLevelOfInclude ==
    BuilderReturned =>
        /\ \A i \in 1..Len(IncludedBuilt) :
              LET e == IncludedBuilt[i]
              IN  /\ "included" \notin DOMAIN e
                  /\ DOMAIN e \subseteq {"type", "id", "attributes", "relationships"}
                  /\ "relationships" \in DOMAIN e => OnlyLinkages(e.relationships)
        /\ Len(IncludedBuilt) = Len(ExpectedEncounters)
        /\ \A r \in Refs \ HandedOver : heap[r] = pre[r]

\* r1 relates to r3 and r3 (by its own getRelationships) back to r1: the
\* entry built for r3 carries the linkage to r1 and nothing more
C13_Witness ==
    /\ Returned("toAPI")
    /\ args.items = << "r1" >>
    /\ Len(IncludedBuilt) = 1
    /\ "relationships" \in DOMAIN IncludedBuilt[1]
    /\ "models" \in DOMAIN IncludedBuilt[1].relationships
    /\ IncludedBuilt[1].relationships["models"].data.kind = "one"
    /\ Len(IncludedBuilt[1].relationships["models"].data.list) = 1
    /\ "included" \notin DOMAIN IncludedBuilt[1]
    /\ heap["r2"] = pre["r2"]

====
